---- MODULE Spec2Model ----
(***************************************************************************)
(* Model of eqk (src/main.go): one run of the program, from main() to      *)
(* process exit.  The run parses os.Args, issues one HTTP GET, decodes the *)
(* body, prints a header, filters the features by magnitude, prints one    *)
(* block per selected feature and a summary line.                          *)
(*                                                                         *)
(* Numbers.  A float64 is represented by the integer  value * Unit, where  *)
(* Unit = 10^MaxArgLen, so that every decimal an argument of at most       *)
(* MaxArgLen characters can spell is represented exactly.                  *)
(*                                                                         *)
(* Output.  Standard output is the sequence of Printf/Println calls made,  *)
(* each recorded with its format string and its argument (the formatting   *)
(* verb is part of the format string; the digits it produces are not       *)
(* modelled).  The log (standard error) is recorded the same way.          *)
(***************************************************************************)
EXTENDS Integers, Sequences, FiniteSets, TLC

\* ------------------------------------------------------------------ bounds
MaxArgLen == 3
MaxFeatures == 2

\* ------------------------------------------------------- generic helpers
RECURSIVE Pow10(_)
Pow10(n) == IF n = 0 THEN 1 ELSE 10 * Pow10(n - 1)

Unit == Pow10(MaxArgLen)

SeqUpTo(S, n) == UNION {[1..k -> S] : k \in 0..n}

RECURSIVE Flatten(_)
Flatten(ss) == IF ss = <<>> THEN <<>> ELSE Head(ss) \o Flatten(Tail(ss))

\* ----------------------------------------------------------- input space
\* Characters an argument is spelled with: a digit, the decimal point and a
\* character that is neither.
ArgChars == {"5", ".", "a"}

\* os.Args without the program name: no argument, or one argument.
ArgvSet == {<<>>} \cup {<<s>> : s \in SeqUpTo(ArgChars, MaxArgLen)}

\* Magnitudes 0.0, 5.0 and 5.5.
MagSet == {0, 5 * Unit, (11 * Unit) \div 2}

\* Coordinates of length 0, 1, 2 and 3 (longitude, latitude, depth).
CoordSet == {<<>>, <<1>>, <<1, 2>>, <<2, 1, 3>>}

\* One element of Earthquake.Features.
FeatureSet ==
    [mag : MagSet, place : {"P"}, time : {1700},
     longitude : {9}, latitude : {8}, coordinates : CoordSet]

\* A response body: malformed JSON (or a type mismatch), or a well-formed
\* document with its features.
MalformedBody == [ok |-> FALSE, features |-> <<>>]
BodySet ==
    {MalformedBody} \cup
    {[ok |-> TRUE, features |-> fs] : fs \in SeqUpTo(FeatureSet, MaxFeatures)}

\* The value of body before a response has been received.
NoBody == [ok |-> FALSE, features |-> <<>>]

\* ------------------------------------------------------ strconv.ParseFloat
DigitChars == <<"0", "1", "2", "3", "4", "5", "6", "7", "8", "9">>
IsDigit(c) == \E i \in 1..10 : DigitChars[i] = c
DigitValue(c) == (CHOOSE i \in 1..10 : DigitChars[i] = c) - 1

\* Mantissa of the digits of s, the decimal point skipped.
RECURSIVE Mantissa(_, _)
Mantissa(s, acc) ==
    IF s = <<>> THEN acc
    ELSE IF Head(s) = "." THEN Mantissa(Tail(s), acc)
    ELSE Mantissa(Tail(s), 10 * acc + DigitValue(Head(s)))

\* Number of digits after the decimal point (0 without one).
FracDigits(s) ==
    IF \E i \in 1..Len(s) : s[i] = "."
    THEN Len(s) - (CHOOSE i \in 1..Len(s) : s[i] = ".")
    ELSE 0

\* A decimal literal: digits with at most one point and at least one digit.
ParseFloat(s) ==
    LET wellFormed ==
            /\ \A i \in 1..Len(s) : IsDigit(s[i]) \/ s[i] = "."
            /\ Cardinality({i \in 1..Len(s) : s[i] = "."}) <= 1
            /\ \E i \in 1..Len(s) : IsDigit(s[i])
    IN IF wellFormed
       THEN [err |-> FALSE, n |-> Mantissa(s, 0) * Pow10(MaxArgLen - FracDigits(s))]
       ELSE [err |-> TRUE, n |-> 0]

\* ------------------------------------------------- parseMinimumMagnitude
WarnAlways(argv) ==
    IF Len(argv) > 0 /\ ~ParseFloat(argv[1]).err
    THEN [n |-> ParseFloat(argv[1]).n, warned |-> TRUE]
    ELSE [n |-> 0, warned |-> TRUE]

\* The threshold returned and whether the warning was logged.
parseMinimumMagnitude(argv) ==
    IF Len(argv) > 0
    THEN IF ~ParseFloat(argv[1]).err
         THEN [n |-> ParseFloat(argv[1]).n, warned |-> FALSE]
         ELSE [n |-> 0, warned |-> TRUE]
    ELSE [n |-> 0, warned |-> FALSE]

\* ------------------------------------------------------------ output lines
Line(f, n, s) == [fmt |-> f, num |-> n, str |-> s]

separator == Line("separator", 0, "")

HeaderShowsZero(m) ==
    << separator,
       Line("Earthquake(s) with magnitude %.1f or higher in the last 30 days:", 0, ""),
       separator >>

\* The three lines printed before the loop.
HeaderLines(m) ==
    << separator,
       Line("Earthquake(s) with magnitude %.1f or higher in the last 30 days:", m, ""),
       separator >>

SummaryLine(n) == Line("Total number of Earthquakes: %d", n, "")

\* The lines of printEarthquakeInfo that do not index Coordinates.
InfoLines(feature) ==
    << Line("Epicenter: %s", 0, feature.place),
       Line("Magnitude: %.1f", feature.mag, ""),
       Line("Time: %s", feature.time, "") >>

CoordFormat == << "Longitude: %.4f", "Latitude: %.4f" >>

CoordLinesFromProperties(feature, k) ==
    [i \in 1..k |->
        Line(CoordFormat[i], IF i = 1 THEN feature.longitude ELSE feature.latitude, "")]

\* The first k of the two lines that index Coordinates.
CoordLines(feature, k) ==
    [i \in 1..k |-> Line(CoordFormat[i], feature.coordinates[i], "")]

\* printEarthquakeInfo: an index past the end of Coordinates panics, after
\* the lines before it have been written.
printEarthquakeInfo(feature) ==
    LET n == Len(feature.coordinates)
    IN IF n >= 2
       THEN [panicked |-> FALSE,
             out |-> InfoLines(feature) \o CoordLines(feature, 2) \o <<separator>>]
       ELSE [panicked |-> TRUE,
             out |-> InfoLines(feature) \o CoordLines(feature, n)]

\* ------------------------------------------------------------- listQuakes
SelectedAtLeast(feature, m) == feature.mag >= m

\* The filter of the loop.
Selected(feature, m) == feature.mag > m

ErrAlwaysNil(e) == TRUE

\* The test that lets listQuakes go on after fetchEarthquakeData.
ErrIsNil(e) == e = "nil"

SkipNext(i) == i + 2

\* The range loop's step.
NextIndex(i) == i + 1

\* ----------------------------------------------------- fetchEarthquakeData
DecodeIgnoresErrors(b) == [err |-> "nil", data |-> b.features]

\* json.Decoder.Decode into Earthquake: a slice of float64 of any length
\* decodes without error.
Decode(b) ==
    IF b.ok THEN [err |-> "nil", data |-> b.features]
    ELSE [err |-> "decode", data |-> <<>>]

CloseOnSuccessOnly(e, closed) == IF e = "nil" THEN closed + 1 ELSE closed

\* defer resp.Body.Close(): runs on every return after the request succeeded.
DeferredClose(e, closed) == closed + 1

\* ------------------------------------------------------------------ state
VARIABLES
    pc,                 \* position of the run
    argv,               \* os.Args[1:]
    minimumMagnitude,   \* the package variable
    m,                  \* listQuakes' parameter minimumMagnitude
    body,               \* resp.Body of the request
    bodyAcquired,       \* number of bodies acquired
    bodyClosed,         \* number of Close calls
    err,                \* error returned by fetchEarthquakeData
    earthquakeData,     \* the decoded Features
    idx,                \* position of the range loop
    totalEarthquakes,   \* the loop's counter
    stdout,             \* lines written to standard output
    logged,             \* lines written by package log
    exitCode,           \* exit status, -1 while running
    httpGets,           \* number of client.Do calls
    decodes             \* number of Decode calls

vars == << pc, argv, minimumMagnitude, m, body, bodyAcquired, bodyClosed, err,
           earthquakeData, idx, totalEarthquakes, stdout, logged, exitCode,
           httpGets, decodes >>

Init ==
    /\ pc = "main"
    /\ argv \in ArgvSet
    /\ minimumMagnitude = 0
    /\ m = 0
    /\ body = NoBody
    /\ bodyAcquired = 0
    /\ bodyClosed = 0
    /\ err = "nil"
    /\ earthquakeData = <<>>
    /\ idx = 1
    /\ totalEarthquakes = 0
    /\ stdout = <<>>
    /\ logged = <<>>
    /\ exitCode = -1
    /\ httpGets = 0
    /\ decodes = 0

\* main, line 62: minimumMagnitude = parseMinimumMagnitude()
ParseArgs ==
    /\ pc = "main"
    /\ LET r == parseMinimumMagnitude(argv)
       IN /\ minimumMagnitude' = r.n
          /\ logged' = IF r.warned
                       THEN Append(logged, "Invalid magnitude provided, using default of 0")
                       ELSE logged
    /\ pc' = "call"
    /\ UNCHANGED << argv, m, body, bodyAcquired, bodyClosed, err, earthquakeData,
                    idx, totalEarthquakes, stdout, exitCode, httpGets, decodes >>

\* main, line 63: the call listQuakes(minimumMagnitude)
CallListQuakes ==
    /\ pc = "call"
    /\ m' = minimumMagnitude
    /\ pc' = "request"
    /\ UNCHANGED << argv, minimumMagnitude, body, bodyAcquired, bodyClosed, err,
                    earthquakeData, idx, totalEarthquakes, stdout, logged,
                    exitCode, httpGets, decodes >>

\* fetchEarthquakeData, lines 127-137: the request fails.  (NewRequest with
\* the constant method and URL does not fail.)
RequestFails ==
    /\ pc = "request"
    /\ httpGets' = httpGets + 1
    /\ err' = "fetch"
    /\ pc' = "fetched"
    /\ UNCHANGED << argv, minimumMagnitude, m, body, bodyAcquired, bodyClosed,
                    earthquakeData, idx, totalEarthquakes, stdout, logged,
                    exitCode, decodes >>

\* fetchEarthquakeData, lines 127-138: the request succeeds with some body.
RequestSucceeds ==
    /\ pc = "request"
    /\ httpGets' = httpGets + 1
    /\ \E b \in BodySet : body' = b
    /\ bodyAcquired' = bodyAcquired + 1
    /\ pc' = "decode"
    /\ UNCHANGED << argv, minimumMagnitude, m, bodyClosed, err, earthquakeData,
                    idx, totalEarthquakes, stdout, logged, exitCode, decodes >>

\* fetchEarthquakeData, lines 141-146: decode, then the deferred Close, then
\* return.
DecodeBody ==
    /\ pc = "decode"
    /\ decodes' = decodes + 1
    /\ LET r == Decode(body)
       IN /\ err' = r.err
          /\ earthquakeData' = r.data
          /\ bodyClosed' = DeferredClose(r.err, bodyClosed)
    /\ pc' = "fetched"
    /\ UNCHANGED << argv, minimumMagnitude, m, body, bodyAcquired, idx,
                    totalEarthquakes, stdout, logged, exitCode, httpGets >>

\* listQuakes, lines 79-81: log.Fatalf logs and exits with status 1.
FetchFatal ==
    /\ pc = "fetched"
    /\ ~ErrIsNil(err)
    /\ logged' = Append(logged, "Failed to fetch earthquake data: %v")
    /\ exitCode' = 1
    /\ pc' = "fatal"
    /\ UNCHANGED << argv, minimumMagnitude, m, body, bodyAcquired, bodyClosed, err,
                    earthquakeData, idx, totalEarthquakes, stdout, httpGets,
                    decodes >>

\* listQuakes, lines 83-87
PrintHeader ==
    /\ pc = "fetched"
    /\ ErrIsNil(err)
    /\ stdout' = stdout \o HeaderLines(m)
    /\ totalEarthquakes' = 0
    /\ idx' = 1
    /\ pc' = "loop"
    /\ UNCHANGED << argv, minimumMagnitude, m, body, bodyAcquired, bodyClosed, err,
                    earthquakeData, logged, exitCode, httpGets, decodes >>

\* listQuakes, lines 89-94: a feature that is not selected.
LoopSkip ==
    /\ pc = "loop"
    /\ idx <= Len(earthquakeData)
    /\ ~Selected(earthquakeData[idx], m)
    /\ idx' = NextIndex(idx)
    /\ UNCHANGED << pc, argv, minimumMagnitude, m, body, bodyAcquired, bodyClosed,
                    err, earthquakeData, totalEarthquakes, stdout, logged,
                    exitCode, httpGets, decodes >>

\* listQuakes, lines 89-94: a selected feature, printed and counted.
LoopPrint ==
    /\ pc = "loop"
    /\ idx <= Len(earthquakeData)
    /\ Selected(earthquakeData[idx], m)
    /\ LET r == printEarthquakeInfo(earthquakeData[idx])
       IN /\ ~r.panicked
          /\ stdout' = stdout \o r.out
    /\ totalEarthquakes' = totalEarthquakes + 1
    /\ idx' = NextIndex(idx)
    /\ UNCHANGED << pc, argv, minimumMagnitude, m, body, bodyAcquired, bodyClosed,
                    err, earthquakeData, logged, exitCode, httpGets, decodes >>

\* listQuakes, line 91, printEarthquakeInfo lines 120-121: a selected feature
\* with fewer than two coordinates; the runtime panics (index out of range),
\* writes the panic to standard error and exits with status 2.
LoopPanic ==
    /\ pc = "loop"
    /\ idx <= Len(earthquakeData)
    /\ Selected(earthquakeData[idx], m)
    /\ LET r == printEarthquakeInfo(earthquakeData[idx])
       IN /\ r.panicked
          /\ stdout' = stdout \o r.out
    /\ logged' = Append(logged, "panic: runtime error: index out of range")
    /\ exitCode' = 2
    /\ pc' = "panicked"
    /\ UNCHANGED << argv, minimumMagnitude, m, body, bodyAcquired, bodyClosed, err,
                    earthquakeData, idx, totalEarthquakes, httpGets, decodes >>

\* listQuakes line 96 and main lines 64-65: return the count, print the
\* summary, exit with status 0.
PrintSummary ==
    /\ pc = "loop"
    /\ idx > Len(earthquakeData)
    /\ stdout' = Append(stdout, SummaryLine(totalEarthquakes))
    /\ exitCode' = 0
    /\ pc' = "done"
    /\ UNCHANGED << argv, minimumMagnitude, m, body, bodyAcquired, bodyClosed, err,
                    earthquakeData, idx, totalEarthquakes, logged, httpGets,
                    decodes >>

Next ==
    \/ ParseArgs
    \/ CallListQuakes
    \/ RequestFails
    \/ RequestSucceeds
    \/ DecodeBody
    \/ FetchFatal
    \/ PrintHeader
    \/ LoopSkip
    \/ LoopPrint
    \/ LoopPanic
    \/ PrintSummary

Spec == Init /\ [][Next]_vars

\* ---------------------------------------------------------------- claims
Terminated == pc \in {"done", "fatal", "panicked"}

\* The records of the feed, as received.
Feed == body.features

\* Positions of the feed whose magnitude is strictly greater than t.
Matching(t) == {i \in 1..Len(Feed) : Feed[i].mag > t}

\* The records of the feed with magnitude strictly greater than t, in feed
\* order.
MatchingSeq(t) ==
    LET Test(f) == f.mag > t
    IN SelectSeq(Feed, Test)

Count(seq, fmt) == Cardinality({i \in 1..Len(seq) : seq[i].fmt = fmt})

HeaderFmt == "Earthquake(s) with magnitude %.1f or higher in the last 30 days:"
SummaryFmt == "Total number of Earthquakes: %d"
WarningMsg == "Invalid magnitude provided, using default of 0"
FatalMsg == "Failed to fetch earthquake data: %v"

CountMsg(seq, msg) == Cardinality({i \in 1..Len(seq) : seq[i] = msg})

\* C1: when the run completes, the count returned by listQuakes and printed
\* in the summary line is the number of records of the feed whose magnitude
\* is strictly greater than the threshold; a record whose magnitude equals
\* the threshold is not counted.
C1_CountIsStrictlyGreater ==
    pc = "done" =>
        /\ totalEarthquakes = Cardinality(Matching(minimumMagnitude))
        /\ stdout[Len(stdout)] = SummaryLine(Cardinality(Matching(minimumMagnitude)))

C1_Witness ==
    /\ pc = "done"
    /\ minimumMagnitude = 5 * Unit
    /\ \E i \in 1..Len(Feed) : Feed[i].mag = minimumMagnitude
    /\ totalEarthquakes = 1

\* C2: a feed with a record of fewer than two coordinates ends the run
\* through the fatal decode-failure path, with nothing on standard output,
\* and the run never panics on an index out of range.
C2_ShortCoordinatesIsDecodeError ==
    /\ pc # "panicked"
    /\ (/\ Terminated
        /\ bodyAcquired = 1
        /\ body.ok
        /\ \E i \in 1..Len(Feed) : Len(Feed[i].coordinates) < 2)
       => (pc = "fatal" /\ stdout = <<>>)

\* C3: after a failed fetch or a failed decode nothing is ever written to
\* standard output, and the run ends with a non-zero exit status and exactly
\* one fatal diagnostic in the log.
C3_FatalWithoutOutput ==
    /\ err # "nil" =>
          /\ stdout = <<>>
          /\ pc \in {"fetched", "fatal"}
          /\ Terminated =>
                /\ pc = "fatal"
                /\ exitCode # 0
                /\ exitCode # -1
                /\ CountMsg(logged, FatalMsg) = 1
    /\ pc = "fatal" => err # "nil"

C3_Witness ==
    /\ pc = "fatal"
    /\ err = "decode"
    /\ exitCode = 1
    /\ logged = << FatalMsg >>

\* C4: when the run completes, the lines between the header and the summary
\* are exactly the blocks of the records with magnitude greater than the
\* threshold, one block per record, in feed order.
C4_BlocksAreSelectedInOrder ==
    pc = "done" =>
        LET sel == MatchingSeq(minimumMagnitude)
        IN SubSeq(stdout, 4, Len(stdout) - 1)
             = Flatten([k \in 1..Len(sel) |-> printEarthquakeInfo(sel[k]).out])

C4_Witness ==
    /\ pc = "done"
    /\ Len(Feed) = 2
    /\ Feed[1].mag <= minimumMagnitude
    /\ Feed[2].mag > minimumMagnitude
    /\ Len(stdout) = 10

\* C5: after argument parsing the threshold is 0 without a warning when no
\* argument was given, the parsed number without a warning when the argument
\* is a number, and 0 with exactly one warning when the argument is not a
\* number; in each case the run goes on to the fetch.
C5_ThresholdFromArgument ==
    pc # "main" =>
        /\ argv = <<>> =>
              /\ minimumMagnitude = 0
              /\ CountMsg(logged, WarningMsg) = 0
        /\ (argv # <<>> /\ ~ParseFloat(argv[1]).err) =>
              /\ minimumMagnitude = ParseFloat(argv[1]).n
              /\ CountMsg(logged, WarningMsg) = 0
        /\ (argv # <<>> /\ ParseFloat(argv[1]).err) =>
              /\ minimumMagnitude = 0
              /\ CountMsg(logged, WarningMsg) = 1
        /\ (pc \in {"call", "request"} \/ httpGets = 1)

C5_Witness ==
    /\ argv = << <<"a", "5">> >>
    /\ minimumMagnitude = 0
    /\ logged = << WarningMsg >>
    /\ httpGets = 1

\* C6: a body is acquired only by a successful request and is closed exactly
\* once by the time fetchEarthquakeData has returned, whether the decode
\* succeeded or failed; a failed request acquires and closes nothing.
C6_BodyClosedExactlyOnce ==
    /\ bodyClosed <= bodyAcquired
    /\ bodyAcquired <= 1
    /\ pc \notin {"main", "call", "request", "decode"} =>
          /\ bodyClosed = bodyAcquired
          /\ err = "fetch" => (bodyAcquired = 0 /\ bodyClosed = 0)
          /\ err # "fetch" => (bodyAcquired = 1 /\ bodyClosed = 1)

C6_Witness ==
    /\ pc = "fetched"
    /\ err = "decode"
    /\ bodyAcquired = 1
    /\ bodyClosed = 1

\* C7: whenever the fetch and the decode both succeeded, the run ends with
\* exit status 0 and the summary line as its last output.
C7_SuccessExitsZero ==
    (Terminated /\ decodes = 1 /\ err = "nil") =>
        /\ exitCode = 0
        /\ stdout # <<>>
        /\ stdout[Len(stdout)].fmt = SummaryFmt

\* C8: when the run completes, the k-th block's longitude and latitude lines
\* carry the first and the second element of the coordinates of the k-th
\* selected record, whatever its third coordinate and its
\* properties.longitude and properties.latitude.
C8_LonLatFromCoordinates ==
    pc = "done" =>
        LET sel == MatchingSeq(minimumMagnitude)
        IN /\ Len(stdout) = 4 + 6 * Len(sel)
           /\ \A k \in 1..Len(sel) :
                 /\ stdout[3 + 6 * (k - 1) + 4] = Line("Longitude: %.4f", sel[k].coordinates[1], "")
                 /\ stdout[3 + 6 * (k - 1) + 5] = Line("Latitude: %.4f", sel[k].coordinates[2], "")

C8_Witness ==
    /\ pc = "done"
    /\ totalEarthquakes = 1
    /\ \E i \in 1..Len(Feed) :
          /\ Feed[i].mag > minimumMagnitude
          /\ Len(Feed[i].coordinates) = 3
          /\ Feed[i].longitude # Feed[i].coordinates[1]
          /\ Feed[i].latitude # Feed[i].coordinates[2]

\* C9: standard output, whenever it is not empty, starts with the header,
\* which is printed once; the summary line is printed only as the last line
\* of a completed run, once; and the threshold the header shows is the one
\* the filter used: the number of blocks is the number of records with
\* magnitude greater than the value in the header.
C9_HeaderBlocksSummary ==
    /\ stdout # <<>> =>
          /\ Len(stdout) >= 3
          /\ SubSeq(stdout, 1, 3) = << separator, Line(HeaderFmt, m, ""), separator >>
          /\ Count(stdout, HeaderFmt) = 1
    /\ \A i \in 1..Len(stdout) :
          stdout[i].fmt = SummaryFmt => (i = Len(stdout) /\ i > 3 /\ pc = "done")
    /\ pc = "done" =>
          /\ stdout[Len(stdout)].fmt = SummaryFmt
          /\ Count(stdout, "Epicenter: %s") = Cardinality(Matching(stdout[2].num))

C9_Witness ==
    /\ pc = "done"
    /\ stdout[2] = Line(HeaderFmt, 5 * Unit, "")
    /\ Len(Feed) = 2
    /\ Count(stdout, "Epicenter: %s") = 2

\* C10: at most one request and at most one decode are made; the decode
\* follows a successful request, output follows a successful decode, the
\* exit follows the request, and after a failed request or decode the run
\* only logs and exits.
C10_FetchDecodeReportOnce ==
    /\ httpGets <= 1
    /\ decodes <= 1
    /\ (pc = "decode" \/ decodes = 1) => (httpGets = 1 /\ bodyAcquired = 1)
    /\ stdout # <<>> => (decodes = 1 /\ body.ok)
    /\ Terminated => httpGets = 1
    /\ pc \in {"loop", "done", "panicked"} => (decodes = 1 /\ body.ok)
    /\ err = "fetch" => decodes = 0

C10_Witness ==
    /\ pc = "fatal"
    /\ err = "fetch"
    /\ httpGets = 1
    /\ decodes = 0
    /\ stdout = <<>>

====
